---- MODULE Spec2Model ----
(***************************************************************************)
(* Model of the OpenRouter Flows app's tool-security core:                 *)
(*   - the Tool block's inbound gate (blocks/tool.ts, http.onRequest),     *)
(*   - the Generate block's signed tool call (blocks/generate.ts),         *)
(*   - the retry executor (lib/retry.ts, withRetry),                       *)
(*   - the app's onSync, which creates the application secret (main.ts).   *)
(*                                                                         *)
(* JavaScript strings are sequences of one-character strings, so that      *)
(* concatenation, String.prototype.includes, Number.prototype.toString and *)
(* parseInt are computed and not assumed.  undefined is the one-element    *)
(* sequence Undefined, which is no string of characters.  An HMAC-SHA-256  *)
(* hex digest is the free term of its key and message (collision-free).    *)
(***************************************************************************)
EXTENDS Integers, Sequences, FiniteSets, TLC

VARIABLES
    toolSecuritySecret, \* app.signals.toolSecuritySecret
    clock,              \* Math.floor(Date.now() / 1000)
    request,            \* the HTTP request in flight to a Tool block, if any
    gate,               \* what onRequest did with each request it received
    call,               \* one call of withRetry
    calls,              \* the tool invocations of one generation step
    gen,                \* one run of the Generate block's onEvent
    results             \* what processResult did with each event it received

vars == <<toolSecuritySecret, clock, request, gate, call, calls, gen, results>>

-----------------------------------------------------------------------------
(* Bounds of the model *)

MaxTsLen == 3          \* longest X-Timestamp value of an arbitrary request
MaxClock == 901        \* the clock does not tick past this
MaxMaxRetries == 4     \* largest options.maxRetries tried
MaxRequests == 2       \* requests served by the gates in one run

-----------------------------------------------------------------------------
(* JavaScript values *)

Undefined == <<"undefined">>

\* !v for v a string or undefined
Falsy(v) == v = Undefined \/ v = <<>>

RECURSIVE SeqsUpTo(_, _)
SeqsUpTo(chars, n) ==
    IF n = 0 THEN {<<>>}
    ELSE LET shorter == SeqsUpTo(chars, n - 1)
         IN  shorter \cup {Append(s, c) : s \in {t \in shorter : Len(t) = n - 1}, c \in chars}

DigitChars == <<"0", "1", "2", "3", "4", "5", "6", "7", "8", "9">>

\* The value of a character as a digit, 99 when it is none
DigitVal(c) ==
    CASE c = "0" -> 0 [] c = "1" -> 1 [] c = "2" -> 2 [] c = "3" -> 3
      [] c = "4" -> 4 [] c = "5" -> 5 [] c = "6" -> 6 [] c = "7" -> 7
      [] c = "8" -> 8 [] c = "9" -> 9
      [] c \in {"a", "A"} -> 10 [] c \in {"b", "B"} -> 11
      [] c \in {"c", "C"} -> 12 [] c \in {"d", "D"} -> 13
      [] c \in {"e", "E"} -> 14 [] c \in {"f", "F"} -> 15
      [] OTHER -> 99

IsWhiteSpace(c) == c \in {" ", "\t", "\n", "\r"}

\* A JavaScript number: an integer or NaN
Num(n) == [nan |-> FALSE, val |-> n]
NaN == [nan |-> TRUE, val |-> 0]

RECURSIVE TrimStart(_)
TrimStart(s) ==
    IF s # <<>> /\ IsWhiteSpace(Head(s)) THEN TrimStart(Tail(s)) ELSE s

\* The longest prefix of s made of digits of the radix
RECURSIVE DigitPrefix(_, _)
DigitPrefix(s, radix) ==
    IF s # <<>> /\ DigitVal(Head(s)) < radix
    THEN <<Head(s)>> \o DigitPrefix(Tail(s), radix)
    ELSE <<>>

RECURSIVE DigitsValue(_, _)
DigitsValue(ds, radix) ==
    IF ds = <<>> THEN 0
    ELSE DigitsValue(SubSeq(ds, 1, Len(ds) - 1), radix) * radix + DigitVal(ds[Len(ds)])

\* parseInt(string) with no radix: leading white space, a sign, a 0x prefix,
\* then the longest run of digits; NaN when there is no digit
parseInt(str) ==
    LET s == TrimStart(str)
        negative == s # <<>> /\ Head(s) = "-"
        unsigned == IF s # <<>> /\ Head(s) \in {"-", "+"} THEN Tail(s) ELSE s
        hex == Len(unsigned) >= 2 /\ unsigned[1] = "0" /\ unsigned[2] \in {"x", "X"}
        radix == IF hex THEN 16 ELSE 10
        digits == DigitPrefix(IF hex THEN SubSeq(unsigned, 3, Len(unsigned)) ELSE unsigned, radix)
    IN  IF digits = <<>> THEN NaN
        ELSE Num((IF negative THEN -1 ELSE 1) * DigitsValue(digits, radix))

\* Number.prototype.toString() of an integer
RECURSIVE NatToString(_)
NatToString(n) ==
    IF n < 10 THEN <<DigitChars[n + 1]>>
    ELSE NatToString(n \div 10) \o <<DigitChars[(n % 10) + 1]>>

toString(n) == IF n < 0 THEN <<"-">> \o NatToString(-n) ELSE NatToString(n)

\* AbsDiffGreater with >= for >
AbsDiffGreaterOrEqual(a, b, limit) ==
    /\ ~a.nan
    /\ ~b.nan
    /\ (IF a.val >= b.val THEN a.val - b.val ELSE b.val - a.val) >= limit

\* AbsDiffGreater without Math.abs: a - b > limit
AbsDiffGreaterOneSided(a, b, limit) ==
    /\ ~a.nan
    /\ ~b.nan
    /\ a.val - b.val > limit

\* Math.abs(a - b) > limit, false when an operand is NaN
AbsDiffGreater(a, b, limit) ==
    /\ ~a.nan
    /\ ~b.nan
    /\ (IF a.val >= b.val THEN a.val - b.val ELSE b.val - a.val) > limit

-----------------------------------------------------------------------------
(* lib/security.ts *)

\* createHmac("sha256", key).update(data).digest("hex")
Hmac(key, data) == <<"hmac(">> \o key \o <<"|">> \o data \o <<")">>

generateFlowSecret(blockId, appSecretKey) == Hmac(appSecretKey, blockId)

\* signRequest with the timestamp before the body
signRequestTimestampFirst(body, timestamp, flowSecret) ==
    Hmac(flowSecret, toString(timestamp) \o body)

signRequest(body, timestamp, flowSecret) == Hmac(flowSecret, body \o toString(timestamp))

-----------------------------------------------------------------------------
(* lib/headers.ts *)

SECURITY_HEADERS ==
    [EVENT_ID |-> "X-Event-Id", TIMESTAMP |-> "X-Timestamp", SIGNATURE |-> "X-Signature"]

HeaderNames == {SECURITY_HEADERS.EVENT_ID, SECURITY_HEADERS.TIMESTAMP, SECURITY_HEADERS.SIGNATURE}

-----------------------------------------------------------------------------
(* JSON bodies of a tool call *)

\* JSON.stringify({ parameters, eventId })
JSONstringify(body) ==
    <<"{\"parameters\":">> \o body.parameters \o <<",\"eventId\":\"">> \o body.eventId \o <<"\"}">>

\* The platform's parse of the raw body of such a request
JSONparse(raw) ==
    LET i == CHOOSE k \in 1..Len(raw) : raw[k] = ",\"eventId\":\""
    IN  [parameters |-> SubSeq(raw, 2, i - 1), eventId |-> SubSeq(raw, i + 1, Len(raw) - 1)]

-----------------------------------------------------------------------------
(* blocks/tool.ts: the inbound gate, http.onRequest *)

FreshnessWindow == 300

CheckOrder == <<"secret", "headers", "freshness", "signature">>

\* FirstRejection with the headers checked before the secret
FirstRejectionHeadersFirst(secretKey, blockId, req, now) ==
    LET eventId == req.headers[SECURITY_HEADERS.EVENT_ID]
        timestamp == req.headers[SECURITY_HEADERS.TIMESTAMP]
        signature == req.headers[SECURITY_HEADERS.SIGNATURE]
        requestTime == parseInt(timestamp)
        flowSecret == generateFlowSecret(blockId, secretKey)
        expectedSignature == Hmac(flowSecret, req.rawBody \o timestamp)
    IN  IF Falsy(eventId) \/ Falsy(timestamp) \/ Falsy(signature) THEN 2
        ELSE IF Falsy(secretKey) THEN 1
        ELSE IF AbsDiffGreater(Num(now), requestTime, FreshnessWindow) THEN 3
        ELSE IF signature # expectedSignature THEN 4
        ELSE 0

\* The if chain of lines 20-65: the number in CheckOrder of the check that
\* rejects the request, 0 when none does
FirstRejection(secretKey, blockId, req, now) ==
    LET eventId == req.headers[SECURITY_HEADERS.EVENT_ID]
        timestamp == req.headers[SECURITY_HEADERS.TIMESTAMP]
        signature == req.headers[SECURITY_HEADERS.SIGNATURE]
        requestTime == parseInt(timestamp)
        flowSecret == generateFlowSecret(blockId, secretKey)
        expectedSignature == Hmac(flowSecret, req.rawBody \o timestamp)
    IN  IF Falsy(secretKey) THEN 1
        ELSE IF Falsy(eventId) \/ Falsy(timestamp) \/ Falsy(signature) THEN 2
        ELSE IF AbsDiffGreater(Num(now), requestTime, FreshnessWindow) THEN 3
        ELSE IF signature # expectedSignature THEN 4
        ELSE 0

\* The statusCode and the body of the http.respond of each rejection
RejectionStatus(check) == IF check = 1 THEN 500 ELSE 401

\* RejectionBody with one message for every 401
RejectionBodyGeneric(check) ==
    [error |-> IF check = 1 THEN "App security secret not available" ELSE "Unauthorized"]

RejectionBody(check) ==
    [error |-> CASE check = 1 -> "App security secret not available"
                 [] check = 2 -> "Missing required security headers"
                 [] check = 3 -> "Request timestamp too old"
                 [] check = 4 -> "Invalid request signature"]

\* What one run of onRequest does: the checks it evaluates, its http.respond
\* calls and its events.emit calls
\* onRequest taking the parent event id from the X-Event-Id header
onRequestParentFromHeader(secretKey, blockId, req, now) ==
    LET check == FirstRejection(secretKey, blockId, req, now)
    IN  IF check # 0
        THEN [checks |-> SubSeq(CheckOrder, 1, check),
              responds |-> <<[requestId |-> req.requestId,
                              statusCode |-> RejectionStatus(check),
                              body |-> RejectionBody(check)]>>,
              emits |-> <<>>]
        ELSE [checks |-> CheckOrder,
              responds |-> <<>>,
              emits |-> <<[payload |-> [requestId |-> req.requestId,
                                        parameters |-> req.body.parameters],
                           echo |-> TRUE,
                           secondaryParentEventIds |-> <<req.headers[SECURITY_HEADERS.EVENT_ID]>>]>>]

onRequest(secretKey, blockId, req, now) ==
    LET check == FirstRejection(secretKey, blockId, req, now)
    IN  IF check # 0
        THEN [checks |-> SubSeq(CheckOrder, 1, check),
              responds |-> <<[requestId |-> req.requestId,
                              statusCode |-> RejectionStatus(check),
                              body |-> RejectionBody(check)]>>,
              emits |-> <<>>]
        ELSE [checks |-> CheckOrder,
              responds |-> <<>>,
              emits |-> <<[payload |-> [requestId |-> req.requestId,
                                        parameters |-> req.body.parameters],
                           echo |-> TRUE,
                           secondaryParentEventIds |-> <<req.body.eventId>>]>>]

-----------------------------------------------------------------------------
(* main.ts: app.onSync *)

\* randomBytes(32).toString("hex")
Secrets == {<<"s1">>, <<"s2">>}

\* onSync generating a secret in every run
onSyncAlwaysGenerates(secret, random, apiKeyOk) ==
    [newStatus |-> IF apiKeyOk THEN "ready" ELSE "failed",
     signalUpdates |-> ("toolSecuritySecret" :> random)]

onSync(secret, random, apiKeyOk) ==
    [newStatus |-> IF apiKeyOk THEN "ready" ELSE "failed",
     signalUpdates |-> IF Falsy(secret) THEN ("toolSecuritySecret" :> random) ELSE <<>>]

-----------------------------------------------------------------------------
(* Requests *)

BlockIds == {<<"A">>, <<"B">>}
EventIds == {<<"e", "1">>, <<"e", "2">>}
Parameters == {<<"{\"q\":", "7", "}">>}

\* The id the platform gives to the n-th request it receives
RequestId(n) == <<"r">> \o toString(n)

Headers(eventId, timestamp, signature) ==
    (SECURITY_HEADERS.EVENT_ID :> eventId)
        @@ (SECURITY_HEADERS.TIMESTAMP :> timestamp)
        @@ (SECURITY_HEADERS.SIGNATURE :> signature)

\* blocks/generate.ts, the operation of createToolsFromConfig: the request that
\* fetch sends for tool t at time now
ToolRequest(t, parameters, eventId, secretKey, now) ==
    LET body == JSONstringify([parameters |-> parameters, eventId |-> eventId])
        timestamp == now
        flowSecret == generateFlowSecret(t.blockId, secretKey)
        signature == signRequest(body, timestamp, flowSecret)
    IN  [requestId |-> RequestId(1),
         block |-> t.url,
         headers |-> Headers(eventId, toString(timestamp), signature),
         rawBody |-> body,
         body |-> JSONparse(body)]

\* A tool descriptor: the block whose secret signs and the block the url reaches
Tools == [blockId : BlockIds, url : BlockIds]

\* Requests anybody may send to the gate of block A
TsChars == {"0", "9", "a", "-"}
TimestampHeaders == {Undefined} \cup SeqsUpTo(TsChars, MaxTsLen)
EventIdHeaders == {Undefined, <<>>, <<"e", "1">>}
ArbitraryBody == JSONstringify([parameters |-> <<"{}">>, eventId |-> <<"e", "1">>])

SignatureHeaders(rawBody, timestamp) ==
    {Undefined, <<"0", "0">>}
        \cup {Hmac(generateFlowSecret(b, s), rawBody \o timestamp) :
                b \in BlockIds, s \in Secrets}

ArbitraryRequests ==
    UNION {{[requestId |-> RequestId(1),
             block |-> <<"A">>,
             headers |-> Headers(e, ts, sig),
             rawBody |-> ArbitraryBody,
             body |-> JSONparse(ArbitraryBody)] :
                e \in EventIdHeaders,
                sig \in SignatureHeaders(ArbitraryBody, IF ts = Undefined THEN <<>> ELSE ts)} :
           ts \in TimestampHeaders}

\* A few of them, for runs in which the gate serves several requests
ProbeRequests ==
    {r \in ArbitraryRequests :
        /\ r.headers[SECURITY_HEADERS.EVENT_ID] # <<>>
        /\ r.headers[SECURITY_HEADERS.TIMESTAMP] \in {Undefined, <<"0">>, <<"9", "0", "0">>}
        /\ r.headers[SECURITY_HEADERS.SIGNATURE] \in
               {Hmac(generateFlowSecret(b, <<"s1">>), r.rawBody \o <<"0">>) : b \in BlockIds}
                   \cup {Hmac(generateFlowSecret(<<"A">>, <<"s1">>), r.rawBody \o <<"9", "0", "0">>)}}

-----------------------------------------------------------------------------
(* State *)

NoCall == [pc |-> "idle"]
NoGen == [pc |-> "idle"]

StartClocks == {300, 301, 599, 600, 601}
TickSteps == {300, 301}

\* The platform applies the signalUpdates that onSync returns
OnSync ==
    \E random \in Secrets, apiKeyOk \in BOOLEAN :
        LET result == onSync(toolSecuritySecret, random, apiKeyOk)
        IN  /\ toolSecuritySecret' =
                  IF "toolSecuritySecret" \in DOMAIN result.signalUpdates
                  THEN result.signalUpdates["toolSecuritySecret"]
                  ELSE toolSecuritySecret
            /\ UNCHANGED <<clock, request, gate, call, calls, gen, results>>

Tick ==
    \E d \in TickSteps :
        /\ clock + d <= MaxClock
        /\ clock' = clock + d
        /\ UNCHANGED <<toolSecuritySecret, request, gate, call, calls, gen, results>>

\* The Tool block the request is addressed to receives it
OnRequest ==
    /\ request # <<>>
    /\ LET req == request[1]
           run == onRequest(toolSecuritySecret, req.block, req, clock)
       IN  gate' = Append(gate, [request |-> req,
                                 secretKey |-> toolSecuritySecret,
                                 now |-> clock,
                                 checks |-> run.checks,
                                 responds |-> run.responds,
                                 emits |-> run.emits])
    /\ request' = <<>>
    /\ UNCHANGED <<toolSecuritySecret, clock, call, calls, gen, results>>

\* A tool invocation of the Generate block sends its signed request; onEvent
\* has thrown before if the secret is not there (lines 122-128)
ToolSend ==
    /\ request = <<>>
    /\ Len(gate) < MaxRequests
    /\ ~Falsy(toolSecuritySecret)
    /\ \E t \in Tools, parameters \in Parameters, eventId \in EventIds :
           request' = <<[ToolRequest(t, parameters, eventId, toolSecuritySecret, clock)
                             EXCEPT !.requestId = RequestId(Len(gate) + 1)]
                            @@ [tool |-> t, secretKey |-> toolSecuritySecret, sentAt |-> clock]>>
    /\ UNCHANGED <<toolSecuritySecret, clock, gate, call, calls, gen, results>>

\* Somebody sends a request to the gate of block A
Arrive ==
    /\ request = <<>>
    /\ Len(gate) < MaxRequests
    /\ request' \in {<<[r EXCEPT !.requestId = RequestId(Len(gate) + 1)]>> : r \in ProbeRequests}
    /\ UNCHANGED <<toolSecuritySecret, clock, gate, call, calls, gen, results>>

-----------------------------------------------------------------------------
(* lib/retry.ts: withRetry *)

DefaultMaxRetries == 3
DefaultMaxDelay == 5000
BackoffBase == 1000

\* String.prototype.includes
includes(str, search) ==
    \E i \in 0..(Len(str) - Len(search)) : SubSeq(str, i + 1, i + Len(search)) = search

RECURSIVE Pow2(_)
Pow2(n) == IF n <= 0 THEN 1 ELSE 2 * Pow2(n - 1)

Min(a, b) == IF a <= b THEN a ELSE b

\* Thrown values: an Error with its message, or a string that is no Error
Error(message) == [kind |-> "Error", text |-> message]
TypeError(message) == [kind |-> "TypeError", text |-> message]
StringValue(str) == [kind |-> "string", text |-> str]
Value(v) == [kind |-> "value", text |-> v]
NoError == [kind |-> "undefined", text |-> <<>>]

Str504 == <<"H", "T", "T", "P", " ", "5", "0", "4">>
StrTimeout == <<"t", "i", "m", "e", "o", "u", "t">>
StrECONNRESET == <<"E", "C", "O", "N", "N", "R", "E", "S", "E", "T">>
StrENOTFOUND == <<"E", "N", "O", "T", "F", "O", "U", "N", "D">>
StrFailedAfter == <<" ", "f", "a", "i", "l", "e", "d", " ", "a", "f", "t", "e", "r", " ">>
StrAttempts == <<" ", "a", "t", "t", "e", "m", "p", "t", "s", ":", " ">>
StrOperation == <<"o", "p", "e", "r", "a", "t", "i", "o", "n">>

\* The markers of a retryable error, lines 38-42
RetryMarkers == {Str504, StrTimeout, StrECONNRESET, StrENOTFOUND}

\* The options of a call with the defaults of lines 14-19 applied
OptionOr(options, key, default) == IF key \in DOMAIN options THEN options[key] ELSE default

\* BackoffDelay with the exponent off by one
BackoffDelayOffByOne(attempt, maxDelay) == Min(BackoffBase * Pow2(attempt), maxDelay)

\* The delay of line 49
BackoffDelay(attempt, maxDelay) == Min(BackoffBase * Pow2(attempt - 1), maxDelay)

\* MessageIsRetryable retrying every HTTP 50x
MessageIsRetryableAny50x(message) ==
    \/ includes(message, SubSeq(Str504, 1, Len(Str504) - 1))
    \/ includes(message, StrTimeout)
    \/ includes(message, StrECONNRESET)
    \/ includes(message, StrENOTFOUND)

\* The second conjunct of shouldRetry, lines 38-42
MessageIsRetryable(message) ==
    \/ includes(message, Str504)
    \/ includes(message, StrTimeout)
    \/ includes(message, StrECONNRESET)
    \/ includes(message, StrENOTFOUND)

\* The error of lines 54-56; lastError is undefined when the loop never ran
ExhaustedError(operationName, maxRetries, lastError) ==
    IF lastError = NoError
    THEN TypeError(<<"Cannot read properties of undefined (reading 'message')">>)
    ELSE Error(operationName \o StrFailedAfter \o toString(maxRetries)
                   \o StrAttempts \o lastError.text)

\* withRetry counting its attempts from 0
withRetryFromZero(options) ==
    [pc |-> "loop",
     maxRetries |-> OptionOr(options, "maxRetries", DefaultMaxRetries),
     maxDelay |-> OptionOr(options, "maxDelay", DefaultMaxDelay),
     pendingEventId |-> OptionOr(options, "pendingEventId", Undefined),
     operationName |-> OptionOr(options, "operationName", StrOperation),
     attempt |-> 0,
     lastError |-> NoError,
     failed |-> <<>>,
     opCalls |-> 0,
     updates |-> <<>>,
     delays |-> <<>>,
     outcome |-> NoError]

\* The state of a call right after withRetry(operation, options) is entered
withRetry(options) ==
    [pc |-> "loop",
     maxRetries |-> OptionOr(options, "maxRetries", DefaultMaxRetries),
     maxDelay |-> OptionOr(options, "maxDelay", DefaultMaxDelay),
     pendingEventId |-> OptionOr(options, "pendingEventId", Undefined),
     operationName |-> OptionOr(options, "operationName", StrOperation),
     attempt |-> 1,
     lastError |-> NoError,
     failed |-> <<>>,      \* what failed in each failed attempt so far
     opCalls |-> 0,        \* invocations of operation
     updates |-> <<>>,     \* the attempts for which events.updatePending was called
     delays |-> <<>>,      \* the delays passed to setTimeout
     outcome |-> NoError]  \* the value returned or the error thrown

\* AttemptStart reporting progress before the first attempt too
AttemptStartAlwaysUpdates(c) ==
    IF c.attempt <= c.maxRetries
    THEN IF ~Falsy(c.pendingEventId)
         THEN [c EXCEPT !.pc = "updating", !.updates = Append(@, c.attempt)]
         ELSE [c EXCEPT !.pc = "operating", !.opCalls = @ + 1]
    ELSE [c EXCEPT !.pc = "thrown",
                   !.outcome = ExhaustedError(c.operationName, c.maxRetries, c.lastError)]

\* The head of the for loop, line 22, and the try block up to its first await
AttemptStart(c) ==
    IF c.attempt <= c.maxRetries
    THEN IF ~Falsy(c.pendingEventId) /\ c.attempt > 1
         THEN [c EXCEPT !.pc = "updating", !.updates = Append(@, c.attempt)]
         ELSE [c EXCEPT !.pc = "operating", !.opCalls = @ + 1]
    ELSE [c EXCEPT !.pc = "thrown",
                   !.outcome = ExhaustedError(c.operationName, c.maxRetries, c.lastError)]

\* events.updatePending resolved: line 30 invokes the operation
UpdateResolved(c) == [c EXCEPT !.pc = "operating", !.opCalls = @ + 1]

\* The operation resolved: line 30 returns its value
OperationResolved(c, v) == [c EXCEPT !.pc = "returned", !.outcome = Value(v)]

\* Catch never retrying after a failed progress update
CatchUpdateFailureFatal(c, error, source) ==
    LET lastError == IF error.kind = "Error" THEN error ELSE Error(error.text)
        caught == [c EXCEPT !.lastError = lastError, !.failed = Append(@, source)]
    IN  IF c.attempt < c.maxRetries /\ error.kind # "Error"
        THEN [caught EXCEPT !.pc = "thrown",
                            !.outcome = TypeError(<<"Cannot read properties of undefined (reading 'includes')">>)]
        ELSE IF source = "updatePending"
                  \/ ~(c.attempt < c.maxRetries /\ MessageIsRetryable(error.text))
        THEN [caught EXCEPT !.pc = "thrown", !.outcome = lastError]
        ELSE [caught EXCEPT !.pc = "sleeping",
                            !.delays = Append(@, BackoffDelay(c.attempt, c.maxDelay))]

\* Catch reporting the next attempt before it waits
CatchUpdatesBeforeSleep(c, error, source) ==
    LET lastError == IF error.kind = "Error" THEN error ELSE Error(error.text)
        caught == [c EXCEPT !.lastError = lastError, !.failed = Append(@, source)]
    IN  IF c.attempt < c.maxRetries /\ error.kind # "Error"
        THEN [caught EXCEPT !.pc = "thrown",
                            !.outcome = TypeError(<<"Cannot read properties of undefined (reading 'includes')">>)]
        ELSE IF ~(c.attempt < c.maxRetries /\ MessageIsRetryable(error.text))
        THEN [caught EXCEPT !.pc = "thrown", !.outcome = lastError]
        ELSE [caught EXCEPT !.pc = "sleeping",
                            !.updates = IF Falsy(c.pendingEventId) THEN @ ELSE Append(@, c.attempt + 1),
                            !.delays = Append(@, BackoffDelay(c.attempt, c.maxDelay))]

\* The catch block, lines 31-50, for the value thrown by source
Catch(c, error, source) ==
    LET lastError == IF error.kind = "Error" THEN error ELSE Error(error.text)
        caught == [c EXCEPT !.lastError = lastError, !.failed = Append(@, source)]
    IN  IF c.attempt < c.maxRetries /\ error.kind # "Error"
        THEN [caught EXCEPT !.pc = "thrown",
                            !.outcome = TypeError(<<"Cannot read properties of undefined (reading 'includes')">>)]
        ELSE IF ~(c.attempt < c.maxRetries /\ MessageIsRetryable(error.text))
        THEN [caught EXCEPT !.pc = "thrown", !.outcome = lastError]
        ELSE [caught EXCEPT !.pc = "sleeping",
                            !.delays = Append(@, BackoffDelay(c.attempt, c.maxDelay))]

\* TimerFired without attempt++
TimerFiredSameAttempt(c) == [c EXCEPT !.pc = "loop"]

\* The timer of line 50 fired: attempt++ and the loop head again
TimerFired(c) == [c EXCEPT !.pc = "loop", !.attempt = @ + 1]

-----------------------------------------------------------------------------
(* Calls of withRetry with an arbitrary operation *)

ErrorMessages ==
    {<<"H", "T", "T", "P", " ", "5", "0", "4", ":", " ", "G", "a", "t", "e", "w", "a", "y", " ", "T", "i", "m", "e", "o", "u", "t">>,
     <<"r", "e", "a", "d", " ", "t", "i", "m", "e", "o", "u", "t">>,
     <<"r", "e", "a", "d", " ", "E", "C", "O", "N", "N", "R", "E", "S", "E", "T">>,
     <<"g", "e", "t", "a", "d", "d", "r", "i", "n", "f", "o", " ", "E", "N", "O", "T", "F", "O", "U", "N", "D", " ", "t">>,
     <<"H", "T", "T", "P", " ", "5", "0", "0", ":", " ", "I", "n", "t", "e", "r", "n", "a", "l", " ", "S", "e", "r", "v", "e", "r", " ", "E", "r", "r", "o", "r">>,
     <<"H", "T", "T", "P", " ", "4", "0", "8", ":", " ", "R", "e", "q", "u", "e", "s", "t", " ", "T", "i", "m", "e", "o", "u", "t">>}

ThrownValues == {Error(m) : m \in ErrorMessages} \cup {StringValue(StrTimeout)}

Results == {<<"\"", "o", "k", "\"">>}

PendingEventId == <<"p", "1">>
ToolOperationName == <<"C", "a", "l", "l", "i", "n", "g", " ", "t", "o", "o", "l", " ", "\"", "t", "\"">>

OptionChoices ==
    {<<>>}
        \cup {("maxRetries" :> n) : n \in 0..MaxMaxRetries}
        \cup {("maxRetries" :> n) @@ ("pendingEventId" :> PendingEventId) : n \in 0..MaxMaxRetries}
        \cup {("maxRetries" :> n) @@ ("maxDelay" :> 1500) : n \in 0..MaxMaxRetries}
        \cup {("pendingEventId" :> PendingEventId) @@ ("operationName" :> ToolOperationName)}

LoopHead ==
    /\ call.pc = "loop"
    /\ call' = AttemptStart(call)
    /\ UNCHANGED <<toolSecuritySecret, clock, request, gate, calls, gen, results>>

UpdatePendingResolves ==
    /\ call.pc = "updating"
    /\ call' = UpdateResolved(call)
    /\ UNCHANGED <<toolSecuritySecret, clock, request, gate, calls, gen, results>>

UpdatePendingRejects ==
    /\ call.pc = "updating"
    /\ \E error \in ThrownValues : call' = Catch(call, error, "updatePending")
    /\ UNCHANGED <<toolSecuritySecret, clock, request, gate, calls, gen, results>>

OperationResolves ==
    /\ call.pc = "operating"
    /\ \E v \in Results : call' = OperationResolved(call, v)
    /\ UNCHANGED <<toolSecuritySecret, clock, request, gate, calls, gen, results>>

OperationRejects ==
    /\ call.pc = "operating"
    /\ \E error \in ThrownValues : call' = Catch(call, error, "operation")
    /\ UNCHANGED <<toolSecuritySecret, clock, request, gate, calls, gen, results>>

TimerFires ==
    /\ call.pc = "sleeping"
    /\ call' = TimerFired(call)
    /\ UNCHANGED <<toolSecuritySecret, clock, request, gate, calls, gen, results>>

InitRetry ==
    /\ toolSecuritySecret = Undefined
    /\ clock = 300
    /\ request = <<>>
    /\ gate = <<>>
    /\ call \in {withRetry(options) : options \in OptionChoices}
    /\ calls = <<>>
    /\ gen = NoGen
    /\ results = <<>>

NextRetry ==
    \/ LoopHead
    \/ UpdatePendingResolves
    \/ UpdatePendingRejects
    \/ OperationResolves
    \/ OperationRejects
    \/ TimerFires

SpecRetry == InitRetry /\ [][NextRetry]_vars

-----------------------------------------------------------------------------
(* blocks/generate.ts: the tool invocations of createToolsFromConfig *)

CallIds == {1, 2}

\* The tools configured for the generation step, one invocation of each: url and
\* blockId are those of one Tool block's definition signal (tool.ts:145-161)
ConfiguredTools == [i \in CallIds |-> [blockId |-> <<<<"A">>, <<"B">>>>[i], url |-> <<<<"A">>, <<"B">>>>[i]]]

\* What fetch settles with: a response, or a rejection with a transport error
Response(status, statusText, body) ==
    [kind |-> "response", status |-> status, statusText |-> statusText, body |-> body]
Rejection(message) ==
    [kind |-> "rejection", status |-> 0, statusText |-> message, body |-> <<>>]
NoResponse == [kind |-> "pending", status |-> 0, statusText |-> <<>>, body |-> <<>>]

StrHTTP == <<"H", "T", "T", "P", " ">>
StrColon == <<":", " ">>
StrResultOpen == <<"{", "\"", "r", "e", "s", "u", "l", "t", "\"", ":">>
StrResultClose == <<"}">>
StrUnexpectedToken == <<"U", "n", "e", "x", "p", "e", "c", "t", "e", "d", " ", "t", "o", "k", "e", "n", " ", "<", " ", "i", "n", " ", "J", "S", "O", "N", " ", "a", "t", " ", "p", "o", "s", "i", "t", "i", "o", "n", " ", "0">>

ResultBody == StrResultOpen \o <<"\"", "o", "k", "\"">> \o StrResultClose
HtmlBody == <<"<", "h", "t", "m", "l", ">">>

Responses ==
    {Response(200, <<"O", "K">>, ResultBody),
     Response(200, <<"O", "K">>, HtmlBody),
     Response(401, <<"U", "n", "a", "u", "t", "h", "o", "r", "i", "z", "e", "d">>, <<>>),
     Response(500, <<"I", "n", "t", "e", "r", "n", "a", "l", " ", "S", "e", "r", "v", "e", "r", " ", "E", "r", "r", "o", "r">>, <<>>),
     Response(500, <<"u", "p", "s", "t", "r", "e", "a", "m", " ", "t", "i", "m", "e", "o", "u", "t">>, <<>>),
     Response(504, <<"G", "a", "t", "e", "w", "a", "y", " ", "T", "i", "m", "e", "o", "u", "t">>, <<>>)}

TransportErrors == {Rejection(<<"r", "e", "a", "d", " ", "E", "C", "O", "N", "N", "R", "E", "S", "E", "T">>), Rejection(<<"f", "e", "t", "c", "h", " ", "f", "a", "i", "l", "e", "d">>)}

\* What events.updatePending rejects with when it does
UpdateErrors == {Error(<<"p", "e", "n", "d", "i", "n", "g", " ", "e", "v", "e", "n", "t", " ", "n", "o", "t", " ", "f", "o", "u", "n", "d">>)}

\* response.ok
ok(response) == response.status >= 200 /\ response.status <= 299

\* The message of lines 290-292
HttpErrorMessage(response) ==
    StrHTTP \o toString(response.status) \o StrColon \o response.statusText

\* const { result } = await response.json(); JSON.stringify(result)
IsResultBody(body) ==
    /\ Len(body) > Len(StrResultOpen) + Len(StrResultClose)
    /\ SubSeq(body, 1, Len(StrResultOpen)) = StrResultOpen
    /\ SubSeq(body, Len(body) - Len(StrResultClose) + 1, Len(body)) = StrResultClose

ResultOf(body) == SubSeq(body, Len(StrResultOpen) + 1, Len(body) - Len(StrResultClose))

\* execute(parameters) of tool t: withRetry is entered with the options of
\* lines 298-301; the closure keeps t, parameters, eventId and secretKey
execute(t, parameters, eventId, pendingEventId, secretKey) ==
    withRetry(("pendingEventId" :> pendingEventId) @@ ("operationName" :> ToolOperationName))
        @@ [tool |-> t,
            parameters |-> parameters,
            eventId |-> eventId,
            secretKey |-> secretKey,
            fetches |-> <<>>,   \* the requests sent and what fetch settled with
            wakeAt |-> 0]       \* when the timer of the current backoff is due

\* OperationStarted sending again what the first attempt sent
OperationStartedResend(c, now) ==
    [c EXCEPT !.fetches =
        Append(@, [attempt |-> c.attempt,
                   sentAt |-> now,
                   request |-> IF c.fetches = <<>>
                               THEN ToolRequest(c.tool, c.parameters, c.eventId, c.secretKey, now)
                               ELSE c.fetches[1].request,
                   response |-> NoResponse])]

\* The operation up to its await of fetch, lines 273-287
OperationStarted(c, now) ==
    [c EXCEPT !.fetches =
        Append(@, [attempt |-> c.attempt,
                   sentAt |-> now,
                   request |-> ToolRequest(c.tool, c.parameters, c.eventId, c.secretKey, now),
                   response |-> NoResponse])]

\* withRetry's loop head, and the operation if line 30 is reached
AttemptStarted(c, now) ==
    LET d == AttemptStart(c)
    IN  IF d.pc = "operating" THEN OperationStarted(d, now) ELSE d

\* The backoff of line 50 begins at now: whole seconds until the timer is due
Slept(c, now) ==
    IF c.pc = "sleeping"
    THEN [c EXCEPT !.wakeAt = now + ((c.delays[Len(c.delays)] + 999) \div 1000)]
    ELSE c

\* fetch settled: the rest of the operation, lines 289-296, and what withRetry
\* does with its result
FetchSettled(c, r, now) ==
    LET d == [c EXCEPT !.fetches[Len(c.fetches)].response = r]
    IN  IF r.kind = "rejection"
        THEN Slept(Catch(d, Error(r.statusText), "operation"), now)
        ELSE IF ~ok(r)
        THEN Slept(Catch(d, Error(HttpErrorMessage(r)), "operation"), now)
        ELSE IF ~IsResultBody(r.body)
        THEN Slept(Catch(d, Error(StrUnexpectedToken), "operation"), now)
        ELSE OperationResolved(d, ResultOf(r.body))

\* Resume with every call on one attempt counter
ResumeSharedAttempt(cs, i, c) ==
    [j \in DOMAIN cs |->
        IF j = i THEN c
        ELSE IF cs[j].pc \in {"idle", "returned", "thrown"} THEN cs[j]
        ELSE [cs[j] EXCEPT !.attempt = c.attempt]]

\* The continuation of call i ran: attempt and lastError are locals of that
\* call, lines 20-22
Resume(cs, i, c) == [cs EXCEPT ![i] = c]

Execute(i) ==
    /\ calls[i].pc = "idle"
    /\ ~Falsy(toolSecuritySecret)
    /\ \E parameters \in Parameters :
           calls' = Resume(calls, i,
                           execute(ConfiguredTools[i], parameters, <<"e", "1">>,
                                   PendingEventId, toolSecuritySecret))
    /\ UNCHANGED <<toolSecuritySecret, clock, request, gate, call, gen, results>>

ToolLoopHead(i) ==
    /\ calls[i].pc = "loop"
    /\ calls' = Resume(calls, i, AttemptStarted(calls[i], clock))
    /\ UNCHANGED <<toolSecuritySecret, clock, request, gate, call, gen, results>>

ToolUpdatePendingResolves(i) ==
    /\ calls[i].pc = "updating"
    /\ calls' = Resume(calls, i, OperationStarted(UpdateResolved(calls[i]), clock))
    /\ UNCHANGED <<toolSecuritySecret, clock, request, gate, call, gen, results>>

ToolUpdatePendingRejects(i) ==
    /\ calls[i].pc = "updating"
    /\ \E error \in UpdateErrors :
           calls' = Resume(calls, i, Slept(Catch(calls[i], error, "updatePending"), clock))
    /\ UNCHANGED <<toolSecuritySecret, clock, request, gate, call, gen, results>>

FetchSettles(i) ==
    /\ calls[i].pc = "operating"
    /\ \E r \in Responses \cup TransportErrors :
           calls' = Resume(calls, i, FetchSettled(calls[i], r, clock))
    /\ UNCHANGED <<toolSecuritySecret, clock, request, gate, call, gen, results>>

\* The timer of call i is due and fires
ToolTimerFires(i) ==
    /\ calls[i].pc = "sleeping"
    /\ clock >= calls[i].wakeAt
    /\ calls' = Resume(calls, i, [TimerFired(calls[i]) EXCEPT !.wakeAt = 0])
    /\ UNCHANGED <<toolSecuritySecret, clock, request, gate, call, gen, results>>

\* Every call that can run has run: time passes until the next timer is due
TimePasses ==
    LET due == {calls[i].wakeAt : i \in {j \in DOMAIN calls : calls[j].pc = "sleeping"}}
    IN  /\ due # {}
        /\ \A i \in DOMAIN calls : calls[i].pc \in {"idle", "sleeping", "returned", "thrown"}
        /\ \A w \in due : w > clock
        /\ clock' = CHOOSE w \in due : \A v \in due : w <= v
        /\ UNCHANGED <<toolSecuritySecret, request, gate, call, calls, gen, results>>

InitTool ==
    /\ toolSecuritySecret = <<"s1">>
    /\ clock = 300
    /\ request = <<>>
    /\ gate = <<>>
    /\ call = NoCall
    /\ calls = <<NoCall>>
    /\ gen = NoGen
    /\ results = <<>>

NextTool ==
    \/ \E i \in DOMAIN calls : Execute(i)
    \/ \E i \in DOMAIN calls : ToolLoopHead(i)
    \/ \E i \in DOMAIN calls : ToolUpdatePendingResolves(i)
    \/ \E i \in DOMAIN calls : ToolUpdatePendingRejects(i)
    \/ \E i \in DOMAIN calls : FetchSettles(i)
    \/ \E i \in DOMAIN calls : ToolTimerFires(i)
    \/ TimePasses

SpecTool == InitTool /\ [][NextTool]_vars

\* Two tool invocations of one generation step, running concurrently
InitPair ==
    /\ toolSecuritySecret = <<"s1">>
    /\ clock = 300
    /\ request = <<>>
    /\ gate = <<>>
    /\ call = NoCall
    /\ calls = [i \in CallIds |-> NoCall]
    /\ gen = NoGen
    /\ results = <<>>

SpecPair == InitPair /\ [][NextTool]_vars

-----------------------------------------------------------------------------
(* blocks/generate.ts: onEvent of the Generate block *)

StrNoSecret == <<"T", "o", "o", "l", " ", "s", "e", "c", "u", "r", "i", "t", "y", " ", "s", "e", "c", "r", "e", "t", " ", "n", "o", "t", " ", "a", "v", "a", "i", "l", "a", "b", "l", "e", ".", " ", "A", "p", "p", " ", "m", "a", "y", " ", "n", "o", "t", " ", "b", "e", " ", "s", "y", "n", "c", "h", "r", "o", "n", "i", "z", "e", "d", " ", "p", "r", "o", "p", "e", "r", "l", "y", ".">>
StrNoPrompt == <<"E", "i", "t", "h", "e", "r", " ", "'", "p", "r", "o", "m", "p", "t", "'", " ", "o", "r", " ", "'", "m", "e", "s", "s", "a", "g", "e", "s", "'", " ", "m", "u", "s", "t", " ", "b", "e", " ", "p", "r", "o", "v", "i", "d", "e", "d", ".">>
StrUnknownError == <<"U", "n", "k", "n", "o", "w", "n", " ", "e", "r", "r", "o", "r">>
StrErrorPrefix == <<"E", "r", "r", "o", "r", ":", " ">>
StrOpenRouterError == <<"\n", "\n">> \o <<"O", "p", "e", "n", "R", "o", "u", "t", "e", "r", " ", "E", "r", "r", "o", "r", ":", " ">>
StrOpenRouterResponse == <<"\n", "\n">> \o <<"O", "p", "e", "n", "R", "o", "u", "t", "e", "r", " ", "R", "e", "s", "p", "o", "n", "s", "e", ":", " ">>

\* A thrown error: its message and, for an API error, its responseBody
ApiError(message, responseBody) ==
    [kind |-> "Error", text |-> message, responseBody |-> responseBody]

JsonBody == <<"{", "\"", "e", "r", "r", "o", "r", "\"", ":", "\"", "x", "\"", "}">>

\* JSON.parse of a responseBody, then JSON.stringify(responseData, null, 2)
JSONparses(text) == text = JsonBody
JSONpretty(text) == <<"{">> \o <<"\n">> \o <<" ", " ", "\"", "e", "r", "r", "o", "r", "\"", ":", " ", "\"", "x", "\"">> \o <<"\n">> \o <<"}">>

\* What generateText, generateObject and the events calls reject with
GenerationErrors ==
    {ApiError(<<"H", "T", "T", "P", " ", "5", "0", "0", ":", " ", "I", "n", "t", "e", "r", "n", "a", "l", " ", "S", "e", "r", "v", "e", "r", " ", "E", "r", "r", "o", "r">>, Undefined),
     ApiError(<<"T", "o", "o", " ", "M", "a", "n", "y", " ", "R", "e", "q", "u", "e", "s", "t", "s">>, JsonBody),
     ApiError(<<"B", "a", "d", " ", "G", "a", "t", "e", "w", "a", "y">>, HtmlBody),
     ApiError(<<>>, Undefined)}

InputConfigs ==
    [prompt : {Undefined, <<"h", "i">>}, messages : {Undefined, <<"[", "]">>}, schema : {Undefined, <<"{", "}">>}]

\* errorMessage of lines 209-220
ErrorMessageOf(error) ==
    LET errorMessage == IF Falsy(error.text) THEN StrUnknownError ELSE error.text
    IN  IF Falsy(error.responseBody) THEN errorMessage
        ELSE IF JSONparses(error.responseBody)
        THEN errorMessage \o StrOpenRouterError \o JSONpretty(error.responseBody)
        ELSE errorMessage \o StrOpenRouterResponse \o error.responseBody

\* CatchBlock throwing without the call of events.cancelPending
CatchBlockNoCancel(g, error) ==
    [g EXCEPT !.pc = "thrown", !.thrown = Error(ErrorMessageOf(error))]

\* The catch block, lines 208-224
CatchBlock(g, error) ==
    [g EXCEPT !.pc = "thrown",
              !.cancels = Append(@, [pendingEventId |-> g.pendingEventId,
                                     reason |-> StrErrorPrefix \o ErrorMessageOf(error)]),
              !.thrown = Error(ErrorMessageOf(error))]

\* onEvent up to its first await, lines 120-149
onEvent(secretKey, inputConfig) ==
    LET g == [pc |-> "creating",
              inputConfig |-> inputConfig,
              pendingEventId |-> Undefined,  \* the handle createPending resolved with
              completes |-> <<>>,            \* handles that events.emit completed
              cancels |-> <<>>,              \* calls of events.cancelPending
              thrown |-> NoError]
    IN  IF Falsy(secretKey)
        THEN [g EXCEPT !.pc = "thrown", !.thrown = Error(StrNoSecret)]
        ELSE g

\* createPending resolved with handle: the try block up to generateText
PendingCreated(g, handle) ==
    LET h == [g EXCEPT !.pendingEventId = handle]
    IN  IF Falsy(g.inputConfig.prompt) /\ Falsy(g.inputConfig.messages)
        THEN CatchBlock(h, ApiError(StrNoPrompt, Undefined))
        ELSE [h EXCEPT !.pc = "generating"]

\* generateText resolved, lines 178-186
TextGenerated(g) ==
    IF ~Falsy(g.inputConfig.schema)
    THEN [g EXCEPT !.pc = "updating"]
    ELSE [g EXCEPT !.pc = "emitting"]

\* Emitted with a statement after the emit that throws into the catch block
EmittedThenCancelled(g) ==
    CatchBlock([g EXCEPT !.completes = Append(@, g.pendingEventId)],
               ApiError(StrUnknownError, Undefined))

\* events.emit resolved, lines 204-207: the pending operation is complete
Emitted(g) ==
    [g EXCEPT !.pc = "returned", !.completes = Append(@, g.pendingEventId)]

GenerateOnEvent ==
    /\ gen.pc = "idle"
    /\ \E inputConfig \in InputConfigs : gen' = onEvent(toolSecuritySecret, inputConfig)
    /\ UNCHANGED <<toolSecuritySecret, clock, request, gate, call, calls, results>>

CreatePendingSettles ==
    /\ gen.pc = "creating"
    /\ \/ gen' = PendingCreated(gen, PendingEventId)
       \/ \E error \in GenerationErrors :
              gen' = [gen EXCEPT !.pc = "thrown", !.thrown = Error(error.text)]
    /\ UNCHANGED <<toolSecuritySecret, clock, request, gate, call, calls, results>>

GenerateTextSettles ==
    /\ gen.pc = "generating"
    /\ \/ gen' = TextGenerated(gen)
       \/ \E error \in GenerationErrors : gen' = CatchBlock(gen, error)
    /\ UNCHANGED <<toolSecuritySecret, clock, request, gate, call, calls, results>>

GenUpdatePendingSettles ==
    /\ gen.pc = "updating"
    /\ \/ gen' = [gen EXCEPT !.pc = "structuring"]
       \/ \E error \in GenerationErrors : gen' = CatchBlock(gen, error)
    /\ UNCHANGED <<toolSecuritySecret, clock, request, gate, call, calls, results>>

GenerateObjectSettles ==
    /\ gen.pc = "structuring"
    /\ \/ gen' = [gen EXCEPT !.pc = "emitting"]
       \/ \E error \in GenerationErrors : gen' = CatchBlock(gen, error)
    /\ UNCHANGED <<toolSecuritySecret, clock, request, gate, call, calls, results>>

EmitSettles ==
    /\ gen.pc = "emitting"
    /\ \/ gen' = Emitted(gen)
       \/ \E error \in GenerationErrors : gen' = CatchBlock(gen, error)
    /\ UNCHANGED <<toolSecuritySecret, clock, request, gate, call, calls, results>>

InitGenerate ==
    /\ toolSecuritySecret = Undefined
    /\ clock = 300
    /\ request = <<>>
    /\ gate = <<>>
    /\ call = NoCall
    /\ calls = <<>>
    /\ gen = NoGen
    /\ results = <<>>

NextGenerate ==
    \/ OnSync
    \/ GenerateOnEvent
    \/ CreatePendingSettles
    \/ GenerateTextSettles
    \/ GenUpdatePendingSettles
    \/ GenerateObjectSettles
    \/ EmitSettles

SpecGenerate == InitGenerate /\ [][NextGenerate]_vars

\* Every awaited call of onEvent settles
SpecGenerateFair ==
    SpecGenerate
        /\ WF_vars(CreatePendingSettles)
        /\ WF_vars(GenerateTextSettles)
        /\ WF_vars(GenUpdatePendingSettles)
        /\ WF_vars(GenerateObjectSettles)
        /\ WF_vars(EmitSettles)

-----------------------------------------------------------------------------
(* Calls of withRetry whose awaited steps all settle *)

\* Either a call with an arbitrary operation or a tool invocation
InitBounded == InitRetry \/ InitTool

NextBounded == NextRetry \/ NextTool

\* Every operation invocation, progress update and backoff delay terminates
SpecBounded ==
    InitBounded /\ [][NextBounded]_vars /\ WF_vars(NextRetry) /\ WF_vars(NextTool)

-----------------------------------------------------------------------------
(* Specifications *)

\* The gate and one request that anybody may have sent
InitGate ==
    /\ toolSecuritySecret = Undefined
    /\ clock \in StartClocks
    /\ request \in {<<r>> : r \in ArbitraryRequests}
    /\ gate = <<>>
    /\ call = NoCall
    /\ calls = <<>>
    /\ gen = NoGen
    /\ results = <<>>

NextGate == OnSync \/ OnRequest

SpecGate == InitGate /\ [][NextGate]_vars

\* The gate serving several requests
InitProbe ==
    /\ toolSecuritySecret = Undefined
    /\ clock \in StartClocks
    /\ request = <<>>
    /\ gate = <<>>
    /\ call = NoCall
    /\ calls = <<>>
    /\ gen = NoGen
    /\ results = <<>>

NextProbe == OnSync \/ Arrive \/ OnRequest

SpecProbe == InitProbe /\ [][NextProbe]_vars

\* Signed tool calls from the Generate block to the Tool blocks
Init ==
    /\ toolSecuritySecret = Undefined
    /\ clock = 300
    /\ request = <<>>
    /\ gate = <<>>
    /\ call = NoCall
    /\ calls = <<>>
    /\ gen = NoGen
    /\ results = <<>>

Next == OnSync \/ Tick \/ ToolSend \/ OnRequest

Spec == Init /\ [][Next]_vars

-----------------------------------------------------------------------------
(* blocks/tool.ts: processResult.onEvent *)

StrNotDirect == <<"T", "h", "i", "s", " ", "b", "l", "o", "c", "k", " ", "s", "h", "o", "u", "l", "d", " ", "n", "o", "t", " ", "b", "e", " ", "c", "a", "l", "l", "e", "d", " ", "d", "i", "r", "e", "c", "t", "l", "y">>

\* inputConfig.result
ResultValues == {<<"\"", "o", "k", "\"">>}

\* The echo of an event: none, or the event the gate emitted with echo: true
NoEcho == <<>>
EchoOf(emitted) == <<[body |-> emitted.payload]>>

\* processResult answering the first request whatever the echo says
processResultFirstRequest(echo, inputConfig) ==
    IF echo = NoEcho
    THEN [responds |-> <<>>, thrown |-> Error(StrNotDirect)]
    ELSE [responds |-> <<[requestId |-> RequestId(1),
                          statusCode |-> 200,
                          headers |-> ("Content-Type" :> "application/json"),
                          body |-> [result |-> inputConfig.result]]>>,
          thrown |-> NoError]

\* onEvent of processResult, lines 115-125
processResult(echo, inputConfig) ==
    IF echo = NoEcho
    THEN [responds |-> <<>>, thrown |-> Error(StrNotDirect)]
    ELSE [responds |-> <<[requestId |-> echo[1].body.requestId,
                          statusCode |-> 200,
                          headers |-> ("Content-Type" :> "application/json"),
                          body |-> [result |-> inputConfig.result]]>>,
          thrown |-> NoError]

\* The flow hands the event of an admitted request, once, to processResult
ProcessResult ==
    \E i \in DOMAIN gate, result \in ResultValues :
        /\ gate[i].emits # <<>>
        /\ \A k \in DOMAIN results : results[k].echo # EchoOf(gate[i].emits[1])
        /\ LET echo == EchoOf(gate[i].emits[1])
               inputConfig == [result |-> result]
               run == processResult(echo, inputConfig)
           IN  results' = Append(results, [echo |-> echo,
                                           inputConfig |-> inputConfig,
                                           responds |-> run.responds,
                                           thrown |-> run.thrown])
        /\ UNCHANGED <<toolSecuritySecret, clock, request, gate, call, calls, gen>>

\* processResult is handed an event that has no echo
ProcessResultDirect ==
    \E result \in ResultValues :
        /\ Len(results) < MaxRequests
        /\ LET inputConfig == [result |-> result]
               run == processResult(NoEcho, inputConfig)
           IN  results' = Append(results, [echo |-> NoEcho,
                                           inputConfig |-> inputConfig,
                                           responds |-> run.responds,
                                           thrown |-> run.thrown])
        /\ UNCHANGED <<toolSecuritySecret, clock, request, gate, call, calls, gen>>

\* Tool calls through the gate and back
NextRespond == OnSync \/ ToolSend \/ OnRequest \/ ProcessResult \/ ProcessResultDirect

SpecRespond == Init /\ [][NextRespond]_vars

-----------------------------------------------------------------------------
(* The gate's checks as the specification states them *)

Header(g, name) == g.request.headers[name]

SecretAbsent(g) == g.secretKey \in {Undefined, <<>>}

HeaderMissing(g) == \E name \in HeaderNames : Header(g, name) \in {Undefined, <<>>}

RequestTime(g) == parseInt(Header(g, SECURITY_HEADERS.TIMESTAMP))

Fresh(g) ==
    /\ ~RequestTime(g).nan
    /\ g.now - RequestTime(g).val <= 300
    /\ RequestTime(g).val - g.now <= 300

StaleOld(g) == ~RequestTime(g).nan /\ g.now - RequestTime(g).val > 300

StaleFuture(g) == ~RequestTime(g).nan /\ RequestTime(g).val - g.now > 300

Stale(g) == StaleOld(g) \/ StaleFuture(g)

SignatureMatches(g) ==
    Header(g, SECURITY_HEADERS.SIGNATURE) =
        Hmac(Hmac(g.secretKey, g.request.block),
             g.request.rawBody \o Header(g, SECURITY_HEADERS.TIMESTAMP))

Admitted(g) == g.emits # <<>>

Rejected(g) == g.responds # <<>>

Statuses(g) == [i \in DOMAIN g.responds |-> g.responds[i].statusCode]

EarliestFailure(g) ==
    IF SecretAbsent(g) THEN 1
    ELSE IF HeaderMissing(g) THEN 2
    ELSE IF Stale(g) THEN 3
    ELSE IF ~SignatureMatches(g) THEN 4
    ELSE 0

ResponseOfCheck(k) ==
    CASE k = 1 -> <<500, "App security secret not available">>
      [] k = 2 -> <<401, "Missing required security headers">>
      [] k = 3 -> <<401, "Request timestamp too old">>
      [] k = 4 -> <<401, "Invalid request signature">>

-----------------------------------------------------------------------------
(* Claims about the gate *)

\* C1: onRequest calls events.emit only if the application secret is present,
\* the three security headers are present, the timestamp denotes a time within
\* 300 seconds of now, and the signature is HMAC(HMAC(secret, block.id),
\* rawBody + timestamp).
C1_AdmissionSafety ==
    \A i \in DOMAIN gate :
        Admitted(gate[i]) =>
            /\ ~SecretAbsent(gate[i])
            /\ \A name \in HeaderNames : Header(gate[i], name) # Undefined
            /\ Fresh(gate[i])
            /\ SignatureMatches(gate[i])

\* C3: the checks are evaluated in the order secret, headers, freshness,
\* signature; the response is that of the earliest failing check and no check
\* after it is evaluated.
C3_CheckOrder ==
    \A i \in DOMAIN gate :
        LET g == gate[i]
            k == EarliestFailure(g)
        IN  /\ g.checks = SubSeq(CheckOrder, 1, IF k = 0 THEN Len(CheckOrder) ELSE k)
            /\ k # 0 =>
                   /\ Len(g.responds) = 1
                   /\ <<g.responds[1].statusCode, g.responds[1].body.error>> = ResponseOfCheck(k)
            /\ k = 0 => g.responds = <<>>

\* A request with a stale timestamp and a bad signature got the freshness
\* rejection, and the signature was not looked at.
C3_Witness ==
    \E i \in DOMAIN gate :
        /\ ~SecretAbsent(gate[i])
        /\ ~HeaderMissing(gate[i])
        /\ Stale(gate[i])
        /\ ~SignatureMatches(gate[i])
        /\ gate[i].checks = <<"secret", "headers", "freshness">>
        /\ gate[i].responds[1].body.error = "Request timestamp too old"

\* C4: an absent secret yields 500; a missing header, a timestamp more than
\* 300 s from now in either direction or a signature mismatch yields 401; a
\* rejected request gets exactly one http.respond and no events.emit, an
\* admitted one gets no http.respond from the gate.
C4_RejectionOutcomes ==
    \A i \in DOMAIN gate :
        LET g == gate[i]
        IN  /\ SecretAbsent(g) => Statuses(g) = <<500>>
            /\ (~SecretAbsent(g) /\ HeaderMissing(g)) => Statuses(g) = <<401>>
            /\ (~SecretAbsent(g) /\ StaleOld(g)) => Statuses(g) = <<401>>
            /\ (~SecretAbsent(g) /\ StaleFuture(g)) => Statuses(g) = <<401>>
            /\ (~SecretAbsent(g) /\ ~SignatureMatches(g)) => Statuses(g) = <<401>>
            /\ Rejected(g) =>
                   /\ Len(g.responds) = 1
                   /\ g.responds[1].requestId = g.request.requestId
                   /\ g.emits = <<>>
            /\ Admitted(g) => g.responds = <<>>
            /\ Rejected(g) \/ Admitted(g)

\* A correctly signed request stamped more than 300 s in the future got 401.
C4_Witness ==
    \E i \in DOMAIN gate :
        /\ ~SecretAbsent(gate[i])
        /\ ~HeaderMissing(gate[i])
        /\ StaleFuture(gate[i])
        /\ SignatureMatches(gate[i])
        /\ Statuses(gate[i]) = <<401>>

Is401(g) == Rejected(g) /\ g.responds[1].statusCode = 401

\* C5 as stated: any two requests rejected with 401 receive the same response
\* body, whichever check failed.
C5_SameBodyForEvery401 ==
    \A i, j \in DOMAIN gate :
        (Is401(gate[i]) /\ Is401(gate[j])) =>
            gate[i].responds[1].body = gate[j].responds[1].body

\* C5 as amended: two rejected requests receive the same response body exactly
\* when the same check rejected them, and the same status exactly when both or
\* neither were rejected for the absent secret.
C5_BodyNamesTheCheck ==
    \A i, j \in DOMAIN gate :
        (Rejected(gate[i]) /\ Rejected(gate[j])) =>
            /\ gate[i].responds[1].body = gate[j].responds[1].body
                   <=> gate[i].checks = gate[j].checks
            /\ gate[i].responds[1].statusCode = gate[j].responds[1].statusCode
                   <=> (Len(gate[i].checks) = 1 <=> Len(gate[j].checks) = 1)

\* Two requests got 401, one for a missing header and one for its signature.
C5_Witness ==
    \E i, j \in DOMAIN gate :
        /\ Is401(gate[i])
        /\ Is401(gate[j])
        /\ Len(gate[i].checks) = 2
        /\ Len(gate[j].checks) = 4

\* C6: a request built by the Generate block's tool callable with blockId A and
\* secret S is admitted by the gate of block A with secret S when the gate's
\* clock is within 300 s of the stamp, and rejected with 401 by the gate of a
\* block B # A with the same secret.
C6_SignVerifyRoundTrip ==
    \A i \in DOMAIN gate :
        LET g == gate[i]
            r == g.request
        IN  /\ (/\ r.tool.blockId = r.block
                /\ g.secretKey = r.secretKey
                /\ g.now - r.sentAt <= 300
                /\ r.sentAt - g.now <= 300)
                   => (Admitted(g) /\ g.responds = <<>>)
            /\ (r.tool.blockId # r.block /\ g.secretKey = r.secretKey)
                   => (Statuses(g) = <<401>> /\ g.emits = <<>>)

\* One call was admitted 300 s after its stamp, and one signed for the other
\* block was rejected while its stamp was fresh.
C6_Witness ==
    \E i, j \in DOMAIN gate :
        /\ gate[i].request.tool.blockId = gate[i].request.block
        /\ gate[i].now - gate[i].request.sentAt = 300
        /\ Admitted(gate[i])
        /\ gate[j].request.tool.blockId # gate[j].request.block
        /\ gate[j].now - gate[j].request.sentAt <= 300
        /\ Statuses(gate[j]) = <<401>>

ValidButForTime(g) ==
    /\ ~SecretAbsent(g)
    /\ ~HeaderMissing(g)
    /\ SignatureMatches(g)
    /\ ~RequestTime(g).nan

\* C11: with valid secret, headers and signature, a request whose timestamp
\* differs from the gate's clock by exactly 300 s in either direction is
\* admitted, and one that differs by 301 s in either direction gets 401.
C11_FreshnessBoundary ==
    \A i \in DOMAIN gate :
        LET g == gate[i]
            age == g.now - RequestTime(g).val
        IN  ValidButForTime(g) =>
                /\ age \in {300, -300} => (Admitted(g) /\ g.responds = <<>>)
                /\ age \in {301, -301} => (Statuses(g) = <<401>> /\ g.emits = <<>>)

\* A correctly signed request stamped exactly 300 s ago was admitted.
C11_Witness ==
    \E i \in DOMAIN gate :
        /\ ValidButForTime(gate[i])
        /\ gate[i].now - RequestTime(gate[i]).val = 300
        /\ Admitted(gate[i])

-----------------------------------------------------------------------------
(* Claims about withRetry *)

OperationFailures(c) == Cardinality({i \in DOMAIN c.failed : c.failed[i] = "operation"})

OnlyOperationFailed(c) == \A i \in DOMAIN c.failed : c.failed[i] = "operation"

HasRetryMarker(message) == \E marker \in RetryMarkers : includes(message, marker)

\* C2: when the operation fails with a retryable error on every attempt,
\* withRetry makes exactly maxRetries attempts and then throws the error
\* '<operationName> failed after <maxRetries> attempts: <last message>'.
C2_ExhaustionWrapsLastError ==
    (/\ call.pc = "thrown"
     /\ call.maxRetries >= 1
     /\ Len(call.failed) = call.maxRetries
     /\ OnlyOperationFailed(call)
     /\ HasRetryMarker(call.lastError.text))
        => /\ call.opCalls = call.maxRetries
           /\ call.outcome =
                  Error(call.operationName \o StrFailedAfter \o toString(call.maxRetries)
                            \o StrAttempts \o call.lastError.text)

\* C7: if the operation fails on attempts 1..k and succeeds on attempt k+1,
\* withRetry returns after exactly k+1 invocations, and with a pending handle
\* the progress update is issued once before each of attempts 2..k+1 and never
\* before attempt 1.
C7_RetryThenSuccess ==
    (call.pc = "returned" /\ OnlyOperationFailed(call)) =>
        LET k == Len(call.failed)
        IN  /\ k < call.maxRetries
            /\ call.attempt = k + 1
            /\ call.opCalls = k + 1
            /\ call.outcome.kind = "value"
            /\ call.outcome.text \in Results
            /\ call.updates =
                   IF call.pendingEventId = Undefined THEN <<>>
                   ELSE [i \in 1..k |-> i + 1]

\* With maxRetries = 3 and a pending handle, the operation failed twice and
\* then succeeded, with updates before attempts 2 and 3.
C7_Witness ==
    /\ call.pc = "returned"
    /\ call.maxRetries = 3
    /\ call.failed = <<"operation", "operation">>
    /\ call.updates = <<2, 3>>

\* C8: when the operation fails with an error whose message has no retry
\* marker, withRetry throws that same error at once: no backoff delay follows
\* the failure and the operation is not invoked again.
C8_FatalNotRetried ==
    (/\ call.pc # "idle"
     /\ call.failed # <<>>
     /\ call.failed[Len(call.failed)] = "operation"
     /\ ~HasRetryMarker(call.lastError.text))
        => /\ call.pc = "thrown"
           /\ call.outcome = call.lastError
           /\ Len(call.delays) = Len(call.failed) - 1
           /\ call.opCalls = OperationFailures(call)
           /\ call.attempt = Len(call.failed)

\* A fatal error of the second attempt was thrown.
C8_Witness ==
    /\ call.pc = "thrown"
    /\ call.failed = <<"operation", "operation">>
    /\ ~HasRetryMarker(call.lastError.text)
    /\ call.maxRetries > 2
    /\ call.outcome = call.lastError

\* C9: if the operation succeeds on its first invocation, withRetry returns its
\* result after exactly one invocation, with no delay and no progress update.
C9_FirstTrySuccess ==
    (call.pc = "returned" /\ call.failed = <<>>) =>
        /\ call.opCalls = 1
        /\ call.attempt = 1
        /\ call.outcome.kind = "value"
        /\ call.delays = <<>>
        /\ call.updates = <<>>

\* A call with a pending handle returned from its first attempt.
C9_Witness ==
    /\ call.pc = "returned"
    /\ call.failed = <<>>
    /\ call.pendingEventId # Undefined

ExpectedDelay(k, maxDelay) ==
    LET doubling == <<1000, 2000, 4000, 8000, 16000, 32000, 64000>>
    IN  IF doubling[k] > maxDelay THEN maxDelay ELSE doubling[k]

\* C10: after a retryable failure of attempt k < maxRetries withRetry waits
\* min(1000 * 2^(k-1), maxDelay) ms before attempt k+1, and it waits for no
\* delay after the failure of the final attempt.
C10_BackoffSchedule ==
    call.pc # "idle" =>
        /\ \A k \in DOMAIN call.delays :
               /\ call.delays[k] = ExpectedDelay(k, call.maxDelay)
               /\ call.delays[k] <= call.maxDelay
               /\ k < call.maxRetries
        /\ call.pc = "sleeping" =>
               (Len(call.delays) = call.attempt /\ call.attempt < call.maxRetries)
        /\ call.pc \in {"loop", "updating", "operating", "returned"} =>
               Len(call.delays) = call.attempt - 1
        /\ (call.pc = "thrown" /\ call.failed # <<>>) =>
               Len(call.delays) = Len(call.failed) - 1

\* With maxRetries = 3 every attempt failed: delays of 1000 and 2000, none
\* after the third failure.
C10_Witness ==
    /\ call.pc = "thrown"
    /\ call.maxRetries = 3
    /\ Len(call.failed) = 3
    /\ call.delays = <<1000, 2000>>

-----------------------------------------------------------------------------
(* Claims about the tool invocations *)

Started(c) == c.pc # "idle"

Terminated(c) == c.pc \in {"returned", "thrown"}

\* The endpoint answered with a status outside 200..299 that is not 504
FatalStatus(r) == r.kind = "response" /\ ~ok(r) /\ r.status # 504

\* A transport error that names a timeout, a reset connection or an unknown host
TransientTransportError(r) ==
    /\ r.kind = "rejection"
    /\ \E marker \in {StrTimeout, StrECONNRESET, StrENOTFOUND} : includes(r.statusText, marker)

\* C12: an answer with a non-2xx status other than 504 ends the tool
\* invocation at once with the error 'HTTP <status>: <statusText>' (so one
\* request is sent when it is the first answer), and only a 504 answer or a
\* timeout / connection-reset / host-not-found transport error is followed by
\* another request.
C12_OnlyA504IsRetried ==
    \A i \in DOMAIN calls :
        Started(calls[i]) =>
            \A k \in DOMAIN calls[i].fetches :
                LET r == calls[i].fetches[k].response
                IN  /\ FatalStatus(r) =>
                           /\ k = Len(calls[i].fetches)
                           /\ calls[i].pc = "thrown"
                           /\ calls[i].outcome = Error(HttpErrorMessage(r))
                    /\ k < Len(calls[i].fetches) =>
                           \/ (r.kind = "response" /\ r.status = 504)
                           \/ TransientTransportError(r)

-----------------------------------------------------------------------------
(* Claims about the Generate block's onEvent *)

PendingCreatedIn(g) == g.pc # "idle" /\ g.pendingEventId # Undefined

CompletedIn(g) == PendingCreatedIn(g) /\ g.completes = <<g.pendingEventId>>

CancelledIn(g) ==
    /\ PendingCreatedIn(g)
    /\ Len(g.cancels) = 1
    /\ g.cancels[1].pendingEventId = g.pendingEventId
    /\ g.cancels[1].reason = StrErrorPrefix \o g.thrown.text

\* C13: every pending operation that createPending created is in the end
\* completed by events.emit or cancelled by events.cancelPending with
\* 'Error: <message>'; when onEvent throws after createPending it has called
\* cancelPending and throws an Error with that message, and when it returns the
\* pending operation is completed.
C13_PendingAlwaysResolved ==
    /\ [](PendingCreatedIn(gen) =>
              /\ gen.pc = "thrown" => (CancelledIn(gen) /\ gen.thrown.kind = "Error")
              /\ gen.pc = "returned" => (CompletedIn(gen) /\ gen.cancels = <<>>))
    /\ [](PendingCreatedIn(gen) => <>(CompletedIn(gen) \/ CancelledIn(gen)))

\* generateObject failed with an API error: the pending operation is cancelled
\* with the message and the parsed response body.
C13_Witness ==
    /\ PendingCreatedIn(gen)
    /\ gen.pc = "thrown"
    /\ ~Falsy(gen.inputConfig.schema)
    /\ CancelledIn(gen)
    /\ includes(gen.thrown.text, StrOpenRouterError)

-----------------------------------------------------------------------------
(* Claims about app.onSync *)

\* C14: a run of onSync puts toolSecuritySecret into signalUpdates exactly
\* when the signal is absent, whether or not the API key validates; so a step
\* never changes a secret that is present, and a secret that changes was absent
\* and becomes a generated one.
C14_SecretNeverRotated ==
    [][/\ \A random \in Secrets, apiKeyOk \in BOOLEAN :
              ("toolSecuritySecret" \in DOMAIN onSync(toolSecuritySecret, random, apiKeyOk).signalUpdates)
                  <=> Falsy(toolSecuritySecret)
       /\ ~Falsy(toolSecuritySecret) => toolSecuritySecret' = toolSecuritySecret
       /\ toolSecuritySecret' # toolSecuritySecret =>
              (Falsy(toolSecuritySecret) /\ toolSecuritySecret' \in Secrets)]_vars

\* The secret of the first run is still there after later runs were possible
\* and a request signed with it was served.
C14_Witness ==
    /\ toolSecuritySecret \in Secrets
    /\ \E i \in DOMAIN gate : gate[i].secretKey = toolSecuritySecret
    /\ clock > 300

-----------------------------------------------------------------------------
(* Claims about the number of attempts *)

ToolStarted == calls # <<>> /\ Started(calls[1])

ToolTerminated == calls # <<>> /\ Terminated(calls[1])

\* C15: with maxRetries >= 1 a call of withRetry never invokes its operation
\* more than maxRetries times, has invoked it at least once when it ends, and
\* does end when every awaited step settles; a tool invocation sends one
\* request per invocation of its operation, so at most 3, and ends too.
C15_BoundedRetries ==
    /\ []((Started(call) /\ call.maxRetries >= 1) =>
              /\ call.opCalls <= call.maxRetries
              /\ Terminated(call) => call.opCalls >= 1)
    /\ []((Started(call) /\ call.maxRetries >= 1) => <>Terminated(call))
    /\ [](ToolStarted =>
              /\ Len(calls[1].fetches) = calls[1].opCalls
              /\ Len(calls[1].fetches) <= 3
              /\ Terminated(calls[1]) => Len(calls[1].fetches) >= 1)
    /\ [](ToolStarted => <>ToolTerminated)

\* A tool invocation gave up after its third request.
C15_Witness ==
    /\ ToolTerminated
    /\ calls[1].pc = "thrown"
    /\ Len(calls[1].fetches) = 3
    /\ calls[1].opCalls = calls[1].maxRetries

-----------------------------------------------------------------------------
(* Claims about concurrent calls *)

\* What withRetry itself keeps of a call
View(c) ==
    IF c.pc = "idle" THEN c
    ELSE [pc |-> c.pc, maxRetries |-> c.maxRetries, maxDelay |-> c.maxDelay,
          attempt |-> c.attempt, lastError |-> c.lastError, failed |-> c.failed,
          opCalls |-> c.opCalls, updates |-> c.updates, delays |-> c.delays,
          outcome |-> c.outcome]

\* d comes from c by a step c takes when it runs alone, given what its own
\* operation or progress update settled with
OwnStep(c, d) ==
    \/ /\ c.pc = "idle"
       /\ View(d) = View(withRetry(("pendingEventId" :> d.pendingEventId)
                                       @@ ("operationName" :> d.operationName)))
    \/ /\ c.pc = "loop"
       /\ View(d) = View(AttemptStart(c))
    \/ /\ c.pc = "updating"
       /\ \/ View(d) = View(UpdateResolved(c))
          \/ View(d) = View(Catch(c, d.lastError, "updatePending"))
    \/ /\ c.pc = "operating"
       /\ \/ View(d) = View(OperationResolved(c, d.outcome.text))
          \/ View(d) = View(Catch(c, d.lastError, "operation"))
    \/ /\ c.pc = "sleeping"
       /\ View(d) = View(TimerFired(c))

-----------------------------------------------------------------------------
(* Claims about the requests of a tool invocation *)

SentTimestamp(f) == f.request.headers[SECURITY_HEADERS.TIMESTAMP]

SentSignature(f) == f.request.headers[SECURITY_HEADERS.SIGNATURE]

\* C17: every request of a tool invocation, retries included, carries as
\* X-Timestamp the clock read when its attempt sent it and as X-Signature the
\* signature of its own body and timestamp; a retry's timestamp is later than
\* the one before it by at least the backoff, its signature differs, and a gate
\* that reads the clock at the time of sending finds the request fresh and
\* admits it.
C17_EveryAttemptIsResigned ==
    \A i \in DOMAIN calls :
        Started(calls[i]) =>
            \A k \in DOMAIN calls[i].fetches :
                LET c == calls[i]
                    f == c.fetches[k]
                IN  /\ SentTimestamp(f) = toString(f.sentAt)
                    /\ SentSignature(f) =
                           signRequest(f.request.rawBody, f.sentAt,
                                       generateFlowSecret(c.tool.blockId, c.secretKey))
                    /\ f.attempt = k
                    /\ ~AbsDiffGreater(Num(f.sentAt), parseInt(SentTimestamp(f)), FreshnessWindow)
                    /\ onRequest(c.secretKey, c.tool.url, f.request, f.sentAt).emits # <<>>
                    /\ k > 1 =>
                           /\ f.sentAt * 1000 >= c.fetches[k - 1].sentAt * 1000 + c.delays[k - 1]
                           /\ SentTimestamp(f) # SentTimestamp(c.fetches[k - 1])
                           /\ SentSignature(f) # SentSignature(c.fetches[k - 1])

\* A third attempt sent its request 3 s after the first, with its own stamp.
C17_Witness ==
    \E i \in DOMAIN calls :
        /\ Started(calls[i])
        /\ Len(calls[i].fetches) = 3
        /\ SentTimestamp(calls[i].fetches[1]) = <<"3", "0", "0">>
        /\ SentTimestamp(calls[i].fetches[3]) = <<"3", "0", "3">>

-----------------------------------------------------------------------------
(* Claims about the progress updates *)

Reports(c) == Started(c) /\ ~Falsy(c.pendingEventId)

\* C18: while a call with a pending handle waits for the backoff after the
\* failure of attempt k, the progress update for attempt k + 1 has been issued.
C18_ProgressBeforeBackoff ==
    (Reports(call) /\ call.pc = "sleeping") =>
        \E u \in DOMAIN call.updates : call.updates[u] = call.attempt + 1

\* C18, amended: the progress update for attempt k + 1 is issued after the
\* backoff wait that follows attempt k, at the start of attempt k + 1 and
\* before the operation is invoked for it; during the wait no update for the
\* coming attempt has been issued.
C18_ProgressAfterBackoff ==
    Reports(call) =>
        /\ \A u \in DOMAIN call.updates :
               /\ call.updates[u] >= 2
               /\ call.updates[u] <= call.attempt
               /\ Len(call.delays) >= call.updates[u] - 1
        /\ call.pc = "sleeping" =>
               /\ Len(call.delays) = call.attempt
               /\ \A u \in DOMAIN call.updates : call.updates[u] # call.attempt + 1
        /\ call.pc = "updating" =>
               /\ call.updates[Len(call.updates)] = call.attempt
               /\ Len(call.delays) = call.attempt - 1
               /\ call.opCalls < call.attempt

\* The first backoff is over and the update for attempt 2 is being issued.
C18_Witness ==
    /\ Reports(call)
    /\ call.pc = "updating"
    /\ call.attempt = 2
    /\ call.delays = <<1000>>
    /\ call.updates = <<2>>

-----------------------------------------------------------------------------
(* Claims about the error withRetry raises *)

\* C19: for any maxRetries, 0 included, and any thrown value, a call in which
\* only the operation failed throws the last error of the operation or an
\* Error with that error's message, never an error of its own; and it returns
\* only a value its operation resolved with.
C19_ErrorsNeverReplaced ==
    /\ (call.pc = "thrown" /\ OnlyOperationFailed(call)) =>
           /\ call.failed # <<>>
           /\ call.outcome.kind = "Error"
           /\ call.outcome.text = call.lastError.text
    /\ call.pc = "returned" =>
           /\ call.outcome.kind = "value"
           /\ call.opCalls >= 1

-----------------------------------------------------------------------------
(* Claims about processResult *)

\* C20: for an admitted request the gate emits {requestId, parameters} with
\* echo; processResult handed that echo sends one response, status 200 with
\* body {result}, to the requestId of the echo, which is the id of a request
\* the gate admitted; processResult handed no echo throws and sends nothing.
C20_ResponseCorrelation ==
    /\ \A i \in DOMAIN gate :
           Admitted(gate[i]) =>
               /\ Len(gate[i].emits) = 1
               /\ gate[i].emits[1].payload =
                      [requestId |-> gate[i].request.requestId,
                       parameters |-> gate[i].request.body.parameters]
               /\ gate[i].emits[1].echo
    /\ \A k \in DOMAIN results :
           LET r == results[k]
           IN  IF r.echo = NoEcho
               THEN r.responds = <<>> /\ r.thrown = Error(StrNotDirect)
               ELSE /\ Len(r.responds) = 1
                    /\ r.responds[1].statusCode = 200
                    /\ r.responds[1].body = [result |-> r.inputConfig.result]
                    /\ r.responds[1].requestId = r.echo[1].body.requestId
                    /\ r.thrown = NoError
                    /\ \E i \in DOMAIN gate :
                           /\ Admitted(gate[i])
                           /\ gate[i].responds = <<>>
                           /\ gate[i].request.requestId = r.responds[1].requestId

\* The second request was admitted and answered, and a direct call threw.
C20_Witness ==
    /\ \E k \in DOMAIN results :
           /\ results[k].echo # NoEcho
           /\ results[k].responds # <<>>
           /\ results[k].responds[1].requestId = RequestId(2)
    /\ \E k \in DOMAIN results : results[k].echo = NoEcho

-----------------------------------------------------------------------------
(* Claims about how often a pending operation is resolved *)

\* C21: one run of onEvent calls events.cancelPending at most once and
\* completes its pending operation at most once, it does not call
\* cancelPending once events.emit with complete has resolved, and no run has
\* both completed and cancelled its pending operation.
C21_ResolvedAtMostOnce ==
    gen.pc # "idle" =>
        /\ Len(gen.cancels) <= 1
        /\ Len(gen.completes) <= 1
        /\ ~(gen.completes # <<>> /\ gen.cancels # <<>>)
        /\ gen.completes # <<>> => gen.pc = "returned"
        /\ gen.cancels # <<>> => gen.pc = "thrown"

\* A run with a schema returned: its pending operation is completed and was
\* never cancelled.
C21_Witness ==
    /\ gen.pc = "returned"
    /\ ~Falsy(gen.inputConfig.schema)
    /\ gen.completes = <<gen.pendingEventId>>
    /\ gen.cancels = <<>>

-----------------------------------------------------------------------------
(* Claims about a failing progress update *)

\* The attempts begun so far: the failed ones and the one under way
AttemptsBegun(c) ==
    Len(c.failed) + (IF c.pc \in {"updating", "operating", "returned"} THEN 1 ELSE 0)

\* C22: a progress update that fails does so at the start of an attempt
\* k > 1 and takes that attempt: the operation is not invoked in it, and the
\* failure is classified as a failure of the operation is (backoff
\* min(1000 * 2^(k-1), maxDelay) when the message has a retry marker and
\* k < maxRetries, else thrown at once); so the operation has been invoked at
\* most once per attempt begun, and once for every attempt whose update did
\* not fail.
C22_FailedUpdateTakesAnAttempt ==
    (call.pc # "idle" /\ call.maxRetries >= 1) =>
        /\ call.opCalls <= AttemptsBegun(call)
        /\ call.opCalls =
               OperationFailures(call)
                   + (IF call.pc \in {"operating", "returned"} THEN 1 ELSE 0)
        /\ \A k \in DOMAIN call.failed :
               call.failed[k] = "updatePending" =>
                   /\ k > 1
                   /\ k <= call.maxRetries
                   /\ \E u \in DOMAIN call.updates : call.updates[u] = k
        /\ (/\ call.failed # <<>>
            /\ call.failed[Len(call.failed)] = "updatePending"
            /\ call.attempt = Len(call.failed)) =>
               LET k == Len(call.failed)
               IN  /\ call.pc \in {"sleeping", "thrown"}
                   /\ call.pc = "sleeping" =>
                          /\ k < call.maxRetries
                          /\ HasRetryMarker(call.lastError.text)
                          /\ Len(call.delays) = k
                          /\ call.delays[k] = ExpectedDelay(k, call.maxDelay)
                   /\ call.pc = "thrown" =>
                          /\ Len(call.delays) = k - 1
                          /\ \/ call.outcome.kind = "TypeError"
                             \/ /\ call.outcome = call.lastError
                                /\ (k = call.maxRetries \/ ~HasRetryMarker(call.lastError.text))

\* The update of attempt 2 failed retryably and attempt 3 succeeded: three
\* attempts, two invocations of the operation.
C22_Witness ==
    /\ call.pc = "returned"
    /\ call.failed = <<"operation", "updatePending">>
    /\ call.attempt = 3
    /\ call.opCalls = 2
    /\ call.delays = <<1000, 2000>>

-----------------------------------------------------------------------------
(* Claims about the X-Event-Id header *)

\* Values an X-Event-Id header may have instead: the body's eventId and others
OtherEventIds == {<<"e", "1">>, <<"e", "2">>, <<"x">>}

WithEventId(req, eventId) == [req EXCEPT !.headers[SECURITY_HEADERS.EVENT_ID] = eventId]

\* C23: a request with a non-empty X-Event-Id and the same request with any
\* other non-empty X-Event-Id get the same decision from the gate: the same
\* checks, the same response or the same emitted event, whose parent event id
\* is the eventId of the body.
C23_EventIdHeaderIgnored ==
    \A i \in DOMAIN gate :
        LET g == gate[i]
        IN  ~Falsy(Header(g, SECURITY_HEADERS.EVENT_ID)) =>
                /\ \A eventId \in OtherEventIds :
                       LET run == onRequest(g.secretKey, g.request.block,
                                            WithEventId(g.request, eventId), g.now)
                       IN  /\ run.checks = g.checks
                           /\ run.responds = g.responds
                           /\ run.emits = g.emits
                /\ Admitted(g) =>
                       g.emits[1].secondaryParentEventIds = <<g.request.body.eventId>>

\* An admitted request whose header could have named another event.
C23_Witness ==
    \E i \in DOMAIN gate :
        /\ Admitted(gate[i])
        /\ Header(gate[i], SECURITY_HEADERS.EVENT_ID) = gate[i].request.body.eventId
        /\ \E eventId \in OtherEventIds : eventId # gate[i].request.body.eventId

====
